---------------------------- MODULE Spec2Model ----------------------------
(***************************************************************************)
(* Model of gameplay/src/HeightField.cpp.                                  *)
(*                                                                         *)
(* Three specifications share the variables below:                        *)
(*   Spec        the loader HeightField::create(path, ...), entered through *)
(*               createFromImage and createFromRAW, one step per block of  *)
(*               the function, with the image and filesystem collaborators *)
(*               answering nondeterministically;                          *)
(*   SpecSample  HeightField::getHeight on grids of every size from 1x1;   *)
(*   SpecPacked  the pure function normalizedHeightPacked.                 *)
(*                                                                         *)
(* A float is modelled as an exact rational [num, den]: the arithmetic of  *)
(* the source is kept operation by operation, single-precision rounding is *)
(* not modelled.  GP_ASSERT(maxHeight >= minHeight) is a contract on the   *)
(* caller: the height ranges drawn as inputs satisfy it.                   *)
(***************************************************************************)
EXTENDS Integers, Sequences, FiniteSets

VARIABLES
    pc,           \* position in create(): idle, checkPath, dispatch, ... , done
    path,         \* const char* path, a sequence of characters
    width,        \* unsigned int width
    height,       \* unsigned int height
    minHeight,    \* float minHeight
    maxHeight,    \* float maxHeight
    image,        \* Image* image (NoImage is NULL)
    pixelSize,    \* unsigned int pixelSize
    bytes,        \* unsigned char* bytes (NoBytes is NULL)
    fileSize,     \* int fileSize
    bits,         \* int bits
    heightfield,  \* HeightField* heightfield (NoField is NULL)
    returned,     \* what create() returned: "none" while running, "NULL", "grid"
    io,           \* the collaborator calls made so far, in order
    diag,         \* the GP_WARN diagnostics emitted so far, in order
    acquired,     \* how often each transient buffer was obtained
    released,     \* how often each transient buffer was released
    hf,           \* SpecSample: the grid and the getHeight call
    pk            \* SpecPacked: the normalizedHeightPacked call

vars == <<pc, path, width, height, minHeight, maxHeight, image, pixelSize,
          bytes, fileSize, bits, heightfield, returned, io, diag,
          acquired, released, hf, pk>>

-----------------------------------------------------------------------------
(* Bounds of the model. *)

\* Largest width and height of a source image or RAW file.
MaxDim == 4

\* Largest column and row count of a grid sampled by getHeight.
MaxCols == 4
MaxRows == 4

\* Sampling coordinates are the multiples of 1/CoordDen.
CoordDen == 2

-----------------------------------------------------------------------------
(* Rational arithmetic standing for float arithmetic. *)

Rat(n, d) == [num |-> n, den |-> d]

RatInt(n) == Rat(n, 1)

RatAdd(a, b) ==
    IF a.den = b.den
    THEN Rat(a.num + b.num, a.den)
    ELSE Rat(a.num * b.den + b.num * a.den, a.den * b.den)

RatSub(a, b) == RatAdd(a, Rat(0 - b.num, b.den))

RatMul(a, b) == Rat(a.num * b.num, a.den * b.den)

RatDivInt(a, k) == Rat(a.num, a.den * k)

RatEq(a, b) ==
    IF a.den = b.den THEN a.num = b.num ELSE a.num * b.den = b.num * a.den

RatLess(a, b) ==
    IF a.den = b.den THEN a.num < b.num ELSE a.num * b.den < b.num * a.den

-----------------------------------------------------------------------------
(* Inputs. *)

\* min/max height pairs, all with maxHeight >= minHeight (GP_ASSERT, line 51).
HeightRanges == { <<0, 100>>, <<0 - 2, 0 - 1>>, <<1, 3>> }

\* Source data is drawn as base + k*step (mod 256) at flat offset k:
\* constant buffers (step 0) and buffers whose every position differs.
RawPatterns == { <<0, 0>>, <<255, 0>>, <<51, 0>>, <<1, 1>>, <<250, 3>> }

ImagePatterns == { <<255, 0>>, <<1, 1>>, <<250, 3>> }

GenByte(p, k) == (p[1] + k * p[2]) % 256

GenData(p, n) == [k \in 0 .. (n - 1) |-> GenByte(p, k)]

Paths ==
    { <<>>,
      <<"p", "n", "g">>,
      <<".", "p", "n", "g">>,
      <<".", "r", "a", "w">>,
      <<"a", ".", "p", "n">>,
      <<"a", ".", "p", "n", "g">>,
      <<"a", ".", "P", "N", "G">>,
      <<"a", ".", "p", "N", "g">>,
      <<"a", ".", "r", "a", "w">>,
      <<"a", ".", "R", "A", "W">>,
      <<"a", ".", "R", "a", "W">>,
      <<"a", ".", "j", "p", "g">>,
      <<"a", "a", "p", "n", "g">>,
      <<"a", "a", "r", "a", "w">>,
      <<"a", ".", "p", "n", "w">>,
      <<"a", ".", "r", "a", "g">>,
      <<"a", ".", "p", "n", "g", ".", "r", "a", "w">>,
      <<"a", ".", "p", "n", "g", "r">> }

Dims == 1 .. MaxDim

\* Image::Format: RGB and RGBA are decoded, any other format is rejected.
Formats == { "RGB", "RGBA", "OTHER" }

FormatChannels(f) == IF f = "RGB" THEN 3 ELSE IF f = "RGBA" THEN 4 ELSE 1

-----------------------------------------------------------------------------
(* NULL pointers, and what an out-of-bounds or uninitialised float holds. *)

NoImage == [format |-> "none", width |-> 0, height |-> 0, data |-> GenData(<<0, 0>>, 0)]

NoBytes == [valid |-> FALSE, data |-> GenData(<<0, 0>>, 0)]

NoField == [valid |-> FALSE, cols |-> 0, rows |-> 0,
            array |-> [k \in {} |-> Rat(0, 0)], writes |-> [k \in {} |-> 0]]

Uninit == Rat(0, 0)

GarbageByte == 0 - 1

\* Reading data[k]: an offset outside the buffer reads garbage.
ByteAt(data, k) == IF k \in DOMAIN data THEN data[k] ELSE GarbageByte

-----------------------------------------------------------------------------
(* HeightField::HeightField / HeightField::create(columns, rows). *)

\* new float[columns * rows]: nothing is written yet.
NewHeightField(columns, rows) ==
    [valid |-> TRUE, cols |-> columns, rows |-> rows,
     array |-> [k \in 0 .. (columns * rows - 1) |-> Uninit],
     writes |-> [k \in 0 .. (columns * rows - 1) |-> 0]]

\* heights[i] = v, counting the store.
Store(f, i, v) ==
    IF i \in DOMAIN f.array
    THEN [f EXCEPT !.array[i] = v, !.writes[i] = @ + 1]
    ELSE f

-----------------------------------------------------------------------------
(* normalizedHeightPacked. *)

normalizedHeightPacked_Unscaled(r, g, b) ==
    RatDivInt(RatAdd(RatInt(256 * r + g), RatInt(b)), 65536)

normalizedHeightPacked(r, g, b) ==
    RatDivInt(RatAdd(Rat((256 * r + g) * 256, 256), Rat(b, 256)), 65536)

-----------------------------------------------------------------------------
(* The decode loops of create().  c is the loop's context: the source      *)
(* buffer, its row length w, pixelSize, minHeight and heightScale.         *)

\* Lines 98-99: the height written for source pixel (x, y) of the image.
PngHeight_NoFlip(c, y, x) ==
    LET idx == (((c.h - 1 - y) * c.w) + x) * c.pixelSize
    IN  RatAdd(RatInt(c.minHeight),
               RatMul(normalizedHeightPacked(ByteAt(c.data, idx),
                                             ByteAt(c.data, idx + 1),
                                             ByteAt(c.data, idx + 2)),
                      RatInt(c.heightScale)))

PngHeight(c, y, x) ==
    LET idx == ((y * c.w) + x) * c.pixelSize
    IN  RatAdd(RatInt(c.minHeight),
               RatMul(normalizedHeightPacked(ByteAt(c.data, idx),
                                             ByteAt(c.data, idx + 1),
                                             ByteAt(c.data, idx + 2)),
                      RatInt(c.heightScale)))

\* Lines 94-101: for (y = h-1, i = 0; y >= 0; --y) for (x = 0; x < w; ++x).
RECURSIVE PngLoop(_, _, _, _, _)
PngLoop(c, f, y, x, i) ==
    IF y < 0 THEN f
    ELSE IF x < c.w
         THEN PngLoop(c, Store(f, i, PngHeight(c, y, x)), y, x + 1, i + 1)
         ELSE PngLoop(c, f, y - 1, 0, i)

\* Lines 145-146: two little-endian bytes per sample, scaled by 1/65535.
Raw16Height(c, y, x) ==
    LET idx == ((y * c.w) + x) * 2
    IN  RatAdd(RatInt(c.minHeight),
               RatMul(Rat(ByteAt(c.data, idx) + ByteAt(c.data, idx + 1) * 256, 65535),
                      RatInt(c.heightScale)))

\* Lines 141-148.
RECURSIVE Raw16Loop(_, _, _, _, _)
Raw16Loop(c, f, y, x, i) ==
    IF y < 0 THEN f
    ELSE IF x < c.w
         THEN Raw16Loop(c, Store(f, i, Raw16Height(c, y, x)), y, x + 1, i + 1)
         ELSE Raw16Loop(c, f, y - 1, 0, i)

\* Line 157: one byte per sample, scaled by 1/255.
Raw8Height_Div256(c, y, x) ==
    RatAdd(RatInt(c.minHeight),
           RatMul(Rat(ByteAt(c.data, (y * c.w) + x), 256), RatInt(c.heightScale)))

Raw8Height(c, y, x) ==
    RatAdd(RatInt(c.minHeight),
           RatMul(Rat(ByteAt(c.data, (y * c.w) + x), 255), RatInt(c.heightScale)))

\* Lines 153-159.
RECURSIVE Raw8Loop(_, _, _, _, _)
Raw8Loop(c, f, y, x, i) ==
    IF y < 0 THEN f
    ELSE IF x < c.w
         THEN Raw8Loop(c, Store(f, i, Raw8Height(c, y, x)), y, x + 1, i + 1)
         ELSE Raw8Loop(c, f, y - 1, 0, i)

-----------------------------------------------------------------------------
(* The extension test of create(). *)

UpperOf == [a |-> "A", g |-> "G", j |-> "J", n |-> "N", p |-> "P", r |-> "R", w |-> "W"]

\* toupper: lower-case letters map to upper case, everything else to itself.
toupper(ch) == IF ch \in DOMAIN UpperOf THEN UpperOf[ch] ELSE ch

\* Line 66: ext = path + (pathLength - 4); ext[k] for k = 0..3.
Ext(p, k) == p[Len(p) - 4 + k + 1]

IsPngExt_NoDot(p) ==
    /\ toupper(Ext(p, 1)) = "P"
    /\ toupper(Ext(p, 2)) = "N"
    /\ toupper(Ext(p, 3)) = "G"

\* Line 67.
IsPngExt(p) ==
    /\ Ext(p, 0) = "."
    /\ toupper(Ext(p, 1)) = "P"
    /\ toupper(Ext(p, 2)) = "N"
    /\ toupper(Ext(p, 3)) = "G"

\* Line 105.
IsRawExt(p) ==
    /\ Ext(p, 0) = "."
    /\ toupper(Ext(p, 1)) = "R"
    /\ toupper(Ext(p, 2)) = "A"
    /\ toupper(Ext(p, 3)) = "W"

\* Line 108.
RawParamsInvalid(w, h, maxH) == w < 2 \/ h < 2 \/ maxH < 0

\* Line 124: int bits = (fileSize / (width * height)) * 8.
RawBits(size, w, h) == (size \div (w * h)) * 8

-----------------------------------------------------------------------------
(* create(path, width, height, minHeight, maxHeight), step by step. *)

Warn(msg) == Append(diag, [msg |-> msg, path |-> path])

\* return NULL / return heightfield.
Return(f) ==
    /\ pc' = "done"
    /\ heightfield' = f
    /\ returned' = IF f.valid THEN "grid" ELSE "NULL"

Enter(p, w, h, range) ==
    /\ pc = "idle"
    /\ pc' = "checkPath"
    /\ path' = p
    /\ width' = w
    /\ height' = h
    /\ minHeight' = range[1]
    /\ maxHeight' = range[2]
    /\ UNCHANGED <<image, pixelSize, bytes, fileSize, bits, heightfield, returned,
                   io, diag, acquired, released, hf, pk>>

\* Lines 38-41: createFromImage passes width = height = 0.
createFromImage ==
    \E p \in Paths, range \in HeightRanges : Enter(p, 0, 0, range)

\* Lines 43-46.
createFromRAW ==
    \E p \in Paths, w \in Dims, h \in Dims, range \in HeightRanges : Enter(p, w, h, range)

\* Lines 54-59.
CheckPath ==
    /\ pc = "checkPath"
    /\ IF Len(path) <= 4
       THEN /\ diag' = Warn("Unrecognized file extension for heightfield image")
            /\ Return(NoField)
       ELSE /\ pc' = "dispatch"
            /\ UNCHANGED <<diag, heightfield, returned>>
    /\ UNCHANGED <<path, width, height, minHeight, maxHeight, image, pixelSize,
                   bytes, fileSize, bits, io, acquired, released, hf, pk>>

\* Lines 66-67, 105, 164-169: the choice of loader.
Dispatch ==
    /\ pc = "dispatch"
    /\ IF IsPngExt(path)
       THEN /\ pc' = "pngCreate"
            /\ UNCHANGED <<diag, heightfield, returned>>
       ELSE IF IsRawExt(path)
       THEN /\ pc' = "rawValidate"
            /\ UNCHANGED <<diag, heightfield, returned>>
       ELSE /\ diag' = Warn("Unsupported heightfield image format")
            /\ Return(NoField)
    /\ UNCHANGED <<path, width, height, minHeight, maxHeight, image, pixelSize,
                   bytes, fileSize, bits, io, acquired, released, hf, pk>>

\* Lines 70-72: Image::create(path) fails, and create returns NULL at once.
ImageCreateFails ==
    /\ pc = "pngCreate"
    /\ io' = Append(io, "Image::create")
    /\ Return(NoField)
    /\ UNCHANGED <<path, width, height, minHeight, maxHeight, image, pixelSize,
                   bytes, fileSize, bits, diag, acquired, released, hf, pk>>

\* Line 70: Image::create(path) yields a decoded image.
ImageCreateSucceeds ==
    /\ pc = "pngCreate"
    /\ \E f \in Formats, w \in Dims, h \in Dims, p \in ImagePatterns :
          image' = [format |-> f, width |-> w, height |-> h,
                    data |-> GenData(p, w * h * FormatChannels(f))]
    /\ io' = Append(io, "Image::create")
    /\ acquired' = [acquired EXCEPT !.image = @ + 1]
    /\ pc' = "pngFormat"
    /\ UNCHANGED <<path, width, height, minHeight, maxHeight, pixelSize, bytes,
                   fileSize, bits, heightfield, returned, diag, released, hf, pk>>

RejectedImageReleased_Leak == released

\* Line 84: SAFE_RELEASE(image) on the unsupported-format exit.
RejectedImageReleased == [released EXCEPT !.image = @ + 1]

\* Lines 74-87: the switch on the pixel format.
PngFormat ==
    /\ pc = "pngFormat"
    /\ IF image.format = "RGB"
       THEN /\ pixelSize' = 3
            /\ pc' = "pngDecode"
            /\ UNCHANGED <<released, diag, heightfield, returned>>
       ELSE IF image.format = "RGBA"
       THEN /\ pixelSize' = 4
            /\ pc' = "pngDecode"
            /\ UNCHANGED <<released, diag, heightfield, returned>>
       ELSE /\ released' = RejectedImageReleased
            /\ diag' = Warn("Unsupported pixel format for heightfield image")
            /\ Return(NoField)
            /\ UNCHANGED pixelSize
    /\ UNCHANGED <<path, width, height, minHeight, maxHeight, image, bytes,
                   fileSize, bits, io, acquired, hf, pk>>

\* Lines 61, 90-103, 169: decode every pixel, release the image, return the grid.
PngDecode ==
    /\ pc = "pngDecode"
    /\ LET c == [data |-> image.data, w |-> image.width, h |-> image.height,
                 pixelSize |-> pixelSize, minHeight |-> minHeight,
                 heightScale |-> maxHeight - minHeight]
       IN  Return(PngLoop(c, NewHeightField(image.width, image.height),
                          image.height - 1, 0, 0))
    /\ released' = [released EXCEPT !.image = @ + 1]
    /\ UNCHANGED <<path, width, height, minHeight, maxHeight, image, pixelSize,
                   bytes, fileSize, bits, io, diag, acquired, hf, pk>>

\* Lines 108-112.
RawValidate ==
    /\ pc = "rawValidate"
    /\ IF RawParamsInvalid(width, height, maxHeight)
       THEN /\ diag' = Warn("Invalid 'width', 'height' or 'maxHeight' parameter for RAW heightfield image")
            /\ Return(NoField)
       ELSE /\ pc' = "rawRead"
            /\ UNCHANGED <<diag, heightfield, returned>>
    /\ UNCHANGED <<path, width, height, minHeight, maxHeight, image, pixelSize,
                   bytes, fileSize, bits, io, acquired, released, hf, pk>>

\* Lines 115-121: FileSystem::readAll fails.
ReadAllFails ==
    /\ pc = "rawRead"
    /\ io' = Append(io, "FileSystem::readAll")
    /\ fileSize' = 0
    /\ diag' = Warn("Falied to read bytes from RAW heightfield image")
    /\ Return(NoField)
    /\ UNCHANGED <<path, width, height, minHeight, maxHeight, image, pixelSize,
                   bytes, bits, acquired, released, hf, pk>>

\* The file sizes tried for a width x height RAW file: around each multiple
\* of width*height up to three bytes per sample.
FileSizes(w, h) ==
    { 0, w * h - 1, w * h, w * h + 1, 2 * w * h - 1, 2 * w * h, 2 * w * h + 1,
      3 * w * h - 1, 3 * w * h }

\* Lines 115-116: FileSystem::readAll yields the file's bytes and its size.
ReadAllSucceeds ==
    /\ pc = "rawRead"
    /\ \E n \in FileSizes(width, height), p \in RawPatterns :
          /\ fileSize' = n
          /\ bytes' = [valid |-> TRUE, data |-> GenData(p, n)]
    /\ io' = Append(io, "FileSystem::readAll")
    /\ acquired' = [acquired EXCEPT !.bytes = @ + 1]
    /\ pc' = "rawBits"
    /\ UNCHANGED <<path, width, height, minHeight, maxHeight, image, pixelSize,
                   bits, heightfield, returned, diag, released, hf, pk>>

\* Lines 123-130: the bit depth inferred from the file size.
RawBitDepth ==
    /\ pc = "rawBits"
    /\ bits' = RawBits(fileSize, width, height)
    /\ IF bits' # 8 /\ bits' # 16
       THEN /\ diag' = Warn("Invalid RAW file - must be 8-bit or 16-bit, but found neither")
            /\ released' = [released EXCEPT !.bytes = @ + 1]
            /\ Return(NoField)
       ELSE /\ pc' = "rawDecode"
            /\ UNCHANGED <<diag, released, heightfield, returned>>
    /\ UNCHANGED <<path, width, height, minHeight, maxHeight, image, pixelSize,
                   bytes, fileSize, io, acquired, hf, pk>>

\* Lines 61, 132-162, 169: decode every sample, delete the bytes, return the grid.
RawDecode ==
    /\ pc = "rawDecode"
    /\ LET c == [data |-> bytes.data, w |-> width, h |-> height,
                 pixelSize |-> bits \div 8, minHeight |-> minHeight,
                 heightScale |-> maxHeight - minHeight]
           f == NewHeightField(width, height)
       IN  IF bits = 16
           THEN Return(Raw16Loop(c, f, height - 1, 0, 0))
           ELSE Return(Raw8Loop(c, f, height - 1, 0, 0))
    /\ released' = [released EXCEPT !.bytes = @ + 1]
    /\ UNCHANGED <<path, width, height, minHeight, maxHeight, image, pixelSize,
                   bytes, fileSize, bits, io, diag, acquired, hf, pk>>

NoCall == [pc |-> "none"]

LoaderIdle ==
    /\ pc = "idle"
    /\ path = <<>>
    /\ width = 0
    /\ height = 0
    /\ minHeight = 0
    /\ maxHeight = 0
    /\ image = NoImage
    /\ pixelSize = 0
    /\ bytes = NoBytes
    /\ fileSize = 0
    /\ bits = 0
    /\ heightfield = NoField
    /\ returned = "none"
    /\ io = <<>>
    /\ diag = <<>>
    /\ acquired = [image |-> 0, bytes |-> 0]
    /\ released = [image |-> 0, bytes |-> 0]

Init ==
    /\ LoaderIdle
    /\ hf = NoCall
    /\ pk = NoCall

Next ==
    \/ createFromImage
    \/ createFromRAW
    \/ CheckPath
    \/ Dispatch
    \/ ImageCreateFails
    \/ ImageCreateSucceeds
    \/ PngFormat
    \/ PngDecode
    \/ RawValidate
    \/ ReadAllFails
    \/ ReadAllSucceeds
    \/ RawBitDepth
    \/ RawDecode

Spec == Init /\ [][Next]_vars

-----------------------------------------------------------------------------
(* HeightField::getHeight.  A coordinate v stands for the float v/CoordDen. *)

\* The heights a sampled grid holds at flat index i.
GridPatterns == { "square", "descending", "flat" }

GridValue(p, i) ==
    IF p = "square" THEN i * i + 1
    ELSE IF p = "descending" THEN 100 - i
    ELSE 7

\* The coordinates sampled: from two cells before the grid to two cells past it.
Columns == (0 - 2 * CoordDen) .. ((MaxCols + 1) * CoordDen)

Rows == (0 - 2 * CoordDen) .. ((MaxRows + 1) * CoordDen)

GarbageFloat == RatInt(0 - 1)

\* Lines 180-181: v < 0 ? 0 : (v > (count-1) ? (count-1) : v).
ClampCoord_ToCount(v, count) ==
    IF v < 0 THEN 0
    ELSE IF v > count * CoordDen THEN count * CoordDen ELSE v

ClampCoord(v, count) ==
    IF v < 0 THEN 0
    ELSE IF v > (count - 1) * CoordDen THEN (count - 1) * CoordDen ELSE v

\* Lines 183-184: conversion of a non-negative float to unsigned int.
Trunc(v) == v \div CoordDen

\* Lines 188-189: modf, the fractional part.
Frac(v) == Rat(v % CoordDen, CoordDen)

\* Lines 193, 197, 201: the test that the next index is past the last one.
PastEnd_Strict(i2, count) == i2 > count

PastEnd(i2, count) == i2 >= count

\* _array[x + y * _cols], with the place it was read from.
Sample(g, x, y) ==
    [x |-> x, y |-> y, idx |-> x + y * g.cols,
     value |-> IF (x + y * g.cols) \in DOMAIN g.array
               THEN RatInt(g.array[x + y * g.cols])
               ELSE GarbageFloat]

\* Lines 207-212: the blend of the four surrounding samples.
Bilinear_SwappedWeights(p11, p12, p22, p21, xFactor, yFactor) ==
    LET xFactorI == RatSub(RatInt(1), xFactor)
        yFactorI == RatSub(RatInt(1), yFactor)
        a == RatMul(xFactor, yFactor)
        b == RatMul(xFactor, yFactorI)
        c == RatMul(xFactorI, yFactorI)
        d == RatMul(xFactorI, yFactor)
    IN  RatAdd(RatAdd(RatAdd(RatMul(p11, a), RatMul(p12, b)), RatMul(p22, c)),
               RatMul(p21, d))

Bilinear(p11, p12, p22, p21, xFactor, yFactor) ==
    LET xFactorI == RatSub(RatInt(1), xFactor)
        yFactorI == RatSub(RatInt(1), yFactor)
        a == RatMul(xFactorI, yFactorI)
        b == RatMul(xFactorI, yFactor)
        c == RatMul(xFactor, yFactor)
        d == RatMul(xFactor, yFactorI)
    IN  RatAdd(RatAdd(RatAdd(RatMul(p11, a), RatMul(p12, b)), RatMul(p22, c)),
               RatMul(p21, d))

\* Lines 177-214.  The result carries the samples the branch taken reads.
getHeight(g, column0, row0) ==
    LET column == ClampCoord(column0, g.cols)
        row == ClampCoord(row0, g.rows)
        x1 == Trunc(column)
        y1 == Trunc(row)
        x2 == x1 + 1
        y2 == y1 + 1
        xFactor == Frac(column)
        yFactor == Frac(row)
        xFactorI == RatSub(RatInt(1), xFactor)
        yFactorI == RatSub(RatInt(1), yFactor)
        p11 == Sample(g, x1, y1)
        p12 == Sample(g, x1, y2)
        p22 == Sample(g, x2, y2)
        p21 == Sample(g, x2, y1)
    IN  IF PastEnd(x2, g.cols) /\ PastEnd(y2, g.rows)
        THEN [branch |-> "corner", value |-> p11.value, reads |-> {p11}]
        ELSE IF PastEnd(x2, g.cols)
        THEN [branch |-> "lastColumn",
              value |-> RatAdd(RatMul(p11.value, yFactorI), RatMul(p12.value, yFactor)),
              reads |-> {p11, p12}]
        ELSE IF PastEnd(y2, g.rows)
        THEN [branch |-> "lastRow",
              value |-> RatAdd(RatMul(p11.value, xFactorI), RatMul(p21.value, xFactor)),
              reads |-> {p11, p21}]
        ELSE [branch |-> "interior",
              value |-> Bilinear(p11.value, p12.value, p22.value, p21.value,
                                 xFactor, yFactor),
              reads |-> {p11, p12, p22, p21}]

\* A populated grid of every size from 1x1, waiting to be sampled.
InitSample ==
    /\ LoaderIdle
    /\ pk = NoCall
    /\ \E c \in 1 .. MaxCols, r \in 1 .. MaxRows, p \in GridPatterns :
          hf = [pc |-> "ready",
                grid |-> [cols |-> c, rows |-> r,
                          array |-> [i \in 0 .. (c * r - 1) |-> GridValue(p, i)]],
                column |-> 0, row |-> 0,
                result |-> [branch |-> "none", value |-> RatInt(0), reads |-> {}]]

\* One call of getHeight(column, row) on the grid.
CallGetHeight ==
    /\ hf.pc = "ready"
    /\ \E column \in Columns, row \in Rows :
          hf' = [hf EXCEPT !.pc = "done", !.column = column, !.row = row,
                           !.result = getHeight(hf.grid, column, row)]
    /\ UNCHANGED <<pc, path, width, height, minHeight, maxHeight, image, pixelSize,
                   bytes, fileSize, bits, heightfield, returned, io, diag,
                   acquired, released, pk>>

NextSample == CallGetHeight

SpecSample == InitSample /\ [][NextSample]_vars

-----------------------------------------------------------------------------
(* normalizedHeightPacked as a call on three channel bytes. *)

\* The channel bytes tried: both ends and the middle of the byte range.
PackedBytes == { 0, 1, 2, 127, 128, 254, 255 }

InitPacked ==
    /\ LoaderIdle
    /\ hf = NoCall
    /\ \E r \in PackedBytes, g \in PackedBytes, b \in PackedBytes :
          pk = [pc |-> "ready", r |-> r, g |-> g, b |-> b, value |-> RatInt(0)]

CallPacked ==
    /\ pk.pc = "ready"
    /\ pk' = [pk EXCEPT !.pc = "done",
                        !.value = normalizedHeightPacked(pk.r, pk.g, pk.b)]
    /\ UNCHANGED <<pc, path, width, height, minHeight, maxHeight, image, pixelSize,
                   bytes, fileSize, bits, heightfield, returned, io, diag,
                   acquired, released, hf>>

NextPacked == CallPacked

SpecPacked == InitPacked /\ [][NextPacked]_vars

-----------------------------------------------------------------------------
(* Properties of getHeight, checked under SpecSample. *)

LastColumn == (hf.grid.cols - 1) * CoordDen

LastRow == (hf.grid.rows - 1) * CoordDen

\* C1: at an integral coordinate (x, y) inside a grid with columns >= 1 and
\* rows >= 1, getHeight returns exactly the stored heights[x + y*columns],
\* whatever the neighbouring cells hold; the last column, the last row and
\* the bottom-right corner included.
C1_IntegralSampleIsStored ==
    (/\ hf.pc = "done"
     /\ hf.column % CoordDen = 0 /\ 0 <= hf.column /\ hf.column <= LastColumn
     /\ hf.row % CoordDen = 0 /\ 0 <= hf.row /\ hf.row <= LastRow)
    => RatEq(hf.result.value,
             RatInt(hf.grid.array[(hf.column \div CoordDen)
                                  + (hf.row \div CoordDen) * hf.grid.cols]))

\* The 4x4 scenario: sampling at (3, 3) returned the stored corner value.
C1_Witness ==
    /\ hf.pc = "done"
    /\ hf.grid.cols = 4 /\ hf.grid.rows = 4
    /\ hf.column = 3 * CoordDen /\ hf.row = 3 * CoordDen
    /\ hf.result.branch = "corner"
    /\ hf.result.value = RatInt(hf.grid.array[15])
    /\ hf.grid.array[15] # hf.grid.array[14]

\* C2: a column below 0 gives the result of column 0 and a column above
\* columns-1 gives the result of column columns-1, for every row; a row below
\* 0 gives the result of row 0 and a row above rows-1 that of row rows-1, for
\* every column.
C2_ClampingLaw ==
    hf.pc = "done" =>
        /\ hf.column < 0
           => RatEq(hf.result.value, getHeight(hf.grid, 0, hf.row).value)
        /\ hf.column > LastColumn
           => RatEq(hf.result.value, getHeight(hf.grid, LastColumn, hf.row).value)
        /\ hf.row < 0
           => RatEq(hf.result.value, getHeight(hf.grid, hf.column, 0).value)
        /\ hf.row > LastRow
           => RatEq(hf.result.value, getHeight(hf.grid, hf.column, LastRow).value)

\* A call a whole cell past the last column and below row 0 of a grid whose
\* cells differ, answered with the stored value of the cell (columns-1, 0).
C2_Witness ==
    /\ hf.pc = "done"
    /\ hf.grid.cols >= 2 /\ hf.grid.rows >= 2
    /\ hf.column >= hf.grid.cols * CoordDen
    /\ hf.row < 0
    /\ hf.grid.array[0] # hf.grid.array[hf.grid.cols - 1]
    /\ RatEq(hf.result.value, RatInt(hf.grid.array[hf.grid.cols - 1]))

\* C10: for every grid with columns >= 1 and rows >= 1, single-column and
\* single-row grids included, and every coordinate inside or outside the
\* grid, every index getHeight reads lies in 0 .. columns*rows-1, and the
\* samples read have column index <= columns-1 and row index <= rows-1.
C10_ReadsInBounds ==
    hf.pc = "done" =>
        /\ hf.result.reads # {}
        /\ \A rd \in hf.result.reads :
              /\ rd.idx \in 0 .. (hf.grid.cols * hf.grid.rows - 1)
              /\ 0 <= rd.x /\ rd.x <= hf.grid.cols - 1
              /\ 0 <= rd.y /\ rd.y <= hf.grid.rows - 1

\* A single-column grid sampled between two rows from outside its extent:
\* two samples are read, both in column 0.
C10_Witness ==
    /\ hf.pc = "done"
    /\ hf.grid.cols = 1 /\ hf.grid.rows >= 2
    /\ hf.column > LastColumn
    /\ hf.result.branch = "lastColumn"
    /\ Cardinality(hf.result.reads) = 2

-----------------------------------------------------------------------------
(* Properties of normalizedHeightPacked, checked under SpecPacked. *)

LexLess(s, t) ==
    \/ s[1] < t[1]
    \/ s[1] = t[1] /\ s[2] < t[2]
    \/ s[1] = t[1] /\ s[2] = t[2] /\ s[3] < t[3]

\* C9: for byte inputs, normalizedHeightPacked(r,g,b) is
\* (256*r + g + b/256)/65536, lies in [0, 1), and is strictly increasing in
\* the lexicographic order of (r, g, b).
C9_PackedRangeAndOrder ==
    pk.pc = "done" =>
        /\ \A r \in PackedBytes, g \in PackedBytes, b \in PackedBytes :
              LexLess(<<r, g, b>>, <<pk.r, pk.g, pk.b>>)
              => RatLess(normalizedHeightPacked(r, g, b), pk.value)
        /\ ~RatLess(pk.value, RatInt(0))
        /\ RatLess(pk.value, RatInt(1))
        /\ RatEq(pk.value, Rat(65536 * pk.r + 256 * pk.g + pk.b, 16777216))

\* The largest input, (255, 255, 255), still decodes below 1.
C9_Witness ==
    /\ pk.pc = "done"
    /\ pk.r = 255 /\ pk.g = 255 /\ pk.b = 255
    /\ RatLess(pk.value, RatInt(1))
    /\ RatLess(normalizedHeightPacked(255, 255, 254), pk.value)

-----------------------------------------------------------------------------
(* Properties of create(), checked under Spec. *)

Called(name) == \E k \in 1 .. Len(io) : io[k] = name

Last4(p) == SubSeq(p, Len(p) - 3, Len(p))

PngSuffixes == { <<".", a, b, c>> : a \in {"p", "P"}, b \in {"n", "N"}, c \in {"g", "G"} }

RawSuffixes == { <<".", a, b, c>> : a \in {"r", "R"}, b \in {"a", "A"}, c \in {"w", "W"} }

PngCase == Len(path) > 4 /\ Last4(path) \in PngSuffixes

RawCase ==
    /\ Len(path) > 4 /\ Last4(path) \in RawSuffixes
    /\ width >= 2 /\ height >= 2 /\ maxHeight >= 0

\* C3: a RAW load with valid width, height and a readable file returns a grid
\* only when the file size is exactly width*height or width*height*2 bytes;
\* every other size returns "no result".
C3_GridOnlyForExactSize ==
    (pc = "done" /\ Called("FileSystem::readAll") /\ bytes.valid)
    => (returned = "grid" <=> (fileSize = width * height \/ fileSize = width * height * 2))

\* C4: the image decoder is called only for a path longer than 4 characters
\* ending in ".png" in any letter case; the filesystem is read only for a
\* path longer than 4 characters ending in ".raw" in any letter case with
\* width >= 2, height >= 2 and maxHeight >= 0; in every other case create
\* returns "no result" having attempted no I/O.
C4_DispatchBeforeIO ==
    /\ Called("Image::create") => PngCase
    /\ Called("FileSystem::readAll") => RawCase
    /\ (pc = "done" /\ ~PngCase /\ ~RawCase) => (returned = "NULL" /\ io = <<>>)

\* A mixed-case ".RaW" path with valid parameters reached the filesystem, as
\* the only I/O of the call.
C4_Witness ==
    /\ path = <<"a", ".", "R", "a", "W">>
    /\ io = <<"FileSystem::readAll">>
    /\ pc = "done"

\* C5: every transient buffer the call obtained (the decoded image, the file's
\* bytes) is released exactly once before the call returns, on success and on
\* every early exit; none is held at return and none is released twice.
C5_BuffersReleasedOnce ==
    \A b \in {"image", "bytes"} :
        /\ acquired[b] <= 1
        /\ released[b] <= acquired[b]
        /\ pc = "done" => released[b] = acquired[b]

\* An image of an unsupported pixel format: the load returned "no result"
\* with the image released.
C5_Witness ==
    /\ pc = "done"
    /\ returned = "NULL"
    /\ image.format = "OTHER"
    /\ acquired.image = 1
    /\ released.image = 1

\* C6: every load failure that makes create return "no result" has reported
\* a diagnostic naming the path before returning.
C6_EveryFailureDiagnosed ==
    (pc = "done" /\ returned = "NULL")
    => \E k \in 1 .. Len(diag) : diag[k].path = path

\* The source the finished load decoded: the image, or the RAW file.
SourceIsImage == Called("Image::create")

SourceWidth == IF SourceIsImage THEN image.width ELSE width

SourceHeight == IF SourceIsImage THEN image.height ELSE height

\* The height the source sample at column sx of source row sy stands for.
ExpectedHeight(sx, sy) ==
    LET scale == maxHeight - minHeight
        k == sy * SourceWidth + sx
    IN  IF SourceIsImage
        THEN LET ps == FormatChannels(image.format)
             IN  Rat(minHeight * 16777216
                     + (65536 * image.data[k * ps] + 256 * image.data[k * ps + 1]
                        + image.data[k * ps + 2]) * scale,
                     16777216)
        ELSE IF fileSize >= 2 * width * height
        THEN Rat(minHeight * 65535
                 + (bytes.data[2 * k] + 256 * bytes.data[2 * k + 1]) * scale,
                 65535)
        ELSE Rat(minHeight * 255 + bytes.data[k] * scale, 255)

\* C7: after a successful load by either loader the grid has the source's
\* dimensions and every cell (x, r) was written exactly once, with the value
\* of the source sample at column x of source row rows-1-r.
C7_RowFlipFullPopulation ==
    (pc = "done" /\ returned = "grid")
    => /\ heightfield.cols = SourceWidth
       /\ heightfield.rows = SourceHeight
       /\ DOMAIN heightfield.array = 0 .. (SourceWidth * SourceHeight - 1)
       /\ \A x \in 0 .. (SourceWidth - 1), r \in 0 .. (SourceHeight - 1) :
             /\ heightfield.writes[x + r * SourceWidth] = 1
             /\ RatEq(heightfield.array[x + r * SourceWidth],
                      ExpectedHeight(x, SourceHeight - 1 - r))

\* A 3x2 RGBA image whose pixels all differ: the grid's row 0 holds the
\* image's bottom row.
C7_Witness ==
    /\ pc = "done"
    /\ returned = "grid"
    /\ image.format = "RGBA"
    /\ image.width = 3 /\ image.height = 2
    /\ image.data[0] # image.data[12]
    /\ RatEq(heightfield.array[0], ExpectedHeight(0, 1))
    /\ ~RatEq(heightfield.array[0], heightfield.array[3])

ConstantBytes == \A k \in DOMAIN bytes.data : bytes.data[k] = bytes.data[0]

\* C8: a RAW file of exactly width*height bytes, all equal to v, loads as a
\* width x height grid whose every cell is
\* minHeight + (v/255)*(maxHeight-minHeight); with width = height = 4,
\* v = 255, minHeight = 0 and maxHeight = 100 every cell is 100.
C8_ConstantRaw8RoundTrip ==
    (/\ pc = "done"
     /\ Called("FileSystem::readAll")
     /\ bytes.valid
     /\ fileSize = width * height
     /\ ConstantBytes)
    => /\ returned = "grid"
       /\ heightfield.cols = width
       /\ heightfield.rows = height
       /\ DOMAIN heightfield.array = 0 .. (width * height - 1)
       /\ \A i \in DOMAIN heightfield.array :
             /\ RatEq(heightfield.array[i],
                      Rat(minHeight * 255 + bytes.data[0] * (maxHeight - minHeight), 255))
             /\ (/\ width = 4 /\ height = 4 /\ bytes.data[0] = 255
                 /\ minHeight = 0 /\ maxHeight = 100)
                => RatEq(heightfield.array[i], RatInt(100))

\* The 4x4 scenario: sixteen bytes of 255 with heights from 0 to 100.
C8_Witness ==
    /\ pc = "done"
    /\ returned = "grid"
    /\ width = 4 /\ height = 4
    /\ fileSize = 16
    /\ bytes.valid /\ ConstantBytes /\ bytes.data[0] = 255
    /\ minHeight = 0 /\ maxHeight = 100
    /\ \A i \in 0 .. 15 : RatEq(heightfield.array[i], RatInt(100))

=============================================================================
